---- MODULE Spec2Model ----
(***************************************************************************)
(* claude-ps5-mcp: the PSN token lifecycle (auth.ts, storage.ts), the UDP *)
(* discovery scan and its broadcast addresses (discovery.ts), the wake-up  *)
(* datagram (wakeup.ts), device registration and the stored wake           *)
(* credential (registration.ts), the account id encoding and the tools of  *)
(* the MCP server (index.ts), as state machines.                           *)
(*                                                                         *)
(* Strings that the code only compares for emptiness are numbers here:     *)
(* 0 is the empty string '' (or an absent optional field), n > 0 is the    *)
(* n-th token the PSN provider issued.  The value null of the code is the  *)
(* empty sequence, a present value x is <<x>>.                             *)
(*                                                                         *)
(* Time is in milliseconds.  File reads and writes are instantaneous at    *)
(* the granularity of the clock; time passes between calls and while an    *)
(* HTTP request is in flight.                                              *)
(***************************************************************************)
EXTENDS Integers, Sequences, FiniteSets, TLC

\* ------------------------------------------------------------------ bounds
\* The clock advances in steps of TickMs up to MaxTime.
TickMs == 500
MaxTime == 3000
\* The PSN provider issues at most MaxIssued token pairs.
MaxIssued == 3

\* A scan receives at most MaxMsgs datagrams and finds at most MaxAddrs
\* broadcast addresses.
MaxMsgs == 2
MaxAddrs == 2

\* options.timeout || 5000 (discoverConsoles)
DefaultTimeout == 5000
\* index * 100: the delay between two search datagrams (discoverConsoles)
SendDelayMs == 100

\* options.timeout of a scan; 0 is a call without the option.
TimeoutOptions == {0, 100}
\* host-id values of a response, besides "", a response without the line.
HostIds == <<"h1", "h2">>
\* source addresses of a response (rinfo.address)
Addresses == <<"ip1", "ip2">>
\* status values of a response; "" is a response without the line (or with
\* an empty value).  The handler copies the value: "AWAKE" stands for the
\* two values of the Console type, "Ok" for every other text.
Statuses == {"", "AWAKE", "Ok"}
\* what the ping of isPs5Awake does: it prints a reply line ("bytes from",
\* "ttl") and exits with 0, or it exits with another code or cannot be
\* run, and exec rejects.
PingOutcomes == {"reply", "error"}

\* os.networkInterfaces() lists at most MaxIfaces addresses.
MaxIfaces == 3

\* At most MaxWakes calls of wakeConsole are made; the time a call waits
\* for its timer passes in steps of WakeTick.
MaxWakes == 2
WakeTick == 1000

\* const BIND_PORT (wakeup.ts)
BIND_PORT == 16690
\* port = 9302: the default of the destructured parameter (wakeConsole)
DefaultWakePort == 9302
\* the consoles a caller wakes: params.host and params.credential
WakeTargets == <<[host |-> "ip1", credential |-> "c1"],
                 [host |-> "ip2", credential |-> "c2"]>>
\* params.port: <<>> is a call without it; 0 is a port socket.send refuses.
PortOptions == {<<>>, <<987>>, <<0>>}

\* ids of the devices credentials are stored for
DeviceIds == {"d1", "d2"}
\* 'auth-type' of a stored credential: 'R' is Remote Play, 'C' the
\* second-screen credential playactor stores as well
AuthTypes == {"R", "C"}
\* 'user-credential' of a stored credential
UserCredentials == {"c1", "c2"}

\* expires_in values (seconds) the provider answers with.
ExpiresIn == {1}
\* user_id values of the profile lookup.
UserIds == {7}
\* redirect URLs a caller passes: without a code parameter, with an empty
\* one ('?code='), with a code.
RedirectUrls == {[code |-> <<>>], [code |-> <<0>>], [code |-> <<1>>]}

VARIABLES
  \* ---- token lifecycle
  now,             \* Date.now()
  credentialsFile, \* CREDENTIALS_FILE: <<>> when the file does not exist, else <<TokenData>>
  issued,          \* number of token pairs the provider has issued
  pc,              \* where the one caller of the auth module is
  caller,          \* the function that called refreshToken
  tokenResponse,   \* OAuthTokenResponse of the exchange in flight
  ret,             \* how the last call ended: op, status, value, line of the return/throw
  call,            \* Date.now() and CREDENTIALS_FILE when the call in progress (or last call) began
  refreshCalls,    \* refresh exchanges (POST grant_type=refresh_token) of that call
  codeCalls,       \* authorization-code exchanges of that call
  profileCalls,    \* profile lookups (getUserInfo) of that call
  browserOpened,   \* open(authUrl) ran in that call
  loggedOut,       \* logout() has run and no authenticateWithRedirectUrl succeeded since
  redirectUrl,     \* the argument of the last authenticateWithRedirectUrl call
  \* ---- discoverConsoles
  elapsed,         \* ms since discoverConsoles was called
  settled,         \* the promise: "idle" (not called), "pending", "resolved", "rejected"
  timeout,         \* const timeout
  isResolved,      \* let isResolved
  timeoutHandle,   \* the timeout timer: "none", "armed", "fired", "cleared"
  closeCalls,      \* calls of socket.close()
  bound,           \* the bind callback has run
  sendTimers,      \* the staggered send timers not yet run: [index, due]
  sent,            \* indexes of the broadcast addresses socket.send was called for
  consoles,        \* const consoles: Console[], each with the receipt number of its response
  probes,          \* message handlers waiting for isPs5Awake: [rcv, hostId, ipAddress]
  log,             \* the responses received, in receipt order
  firstSend,       \* what the callback of the first socket.send got: "none" (no send yet), "ok", "error"
  returned,        \* the list as it was when resolve(consoles) ran
  settledAt,       \* elapsed when the promise settled
  settleCalls,     \* calls of resolve(consoles) and of reject(error)
  \* ---- getBroadcastAddresses
  interfaces,      \* os.networkInterfaces() of the last call, as one list
  addresses,       \* the list the last call returned; <<>> before the first call
  \* ---- wakeConsole
  wake,            \* the calls of wakeConsole, in the order they were made
  boundSocket,     \* the call whose open socket is bound to BIND_PORT; 0 when none is
  datagrams,       \* the datagrams handed to socket.send
  \* ---- registration.ts
  credentials,     \* playactor's credentials.json: device id -> <<>> (none) or <<ICredentials>>
  wakeCredential,  \* how the last getWakeCredential call ended, and what it had read
  \* ---- extractAccountId
  user_id,         \* the user_id string of the last extractAccountId call: its decimal digits
  accountId,       \* what the call returned: <<the base64 characters>>, <<>> when it threw
  \* ---- index.ts
  discoveredConsoles, \* this.discoveredConsoles: the array the server holds
  scanResult,      \* what that array held when discoverConsoles returned it
  latecomers,      \* the responses to that scan whose handler still awaits its probe
  toolResult       \* the result of the last tool call, with what the call did

authVars == <<now, credentialsFile, issued, pc, caller, tokenResponse, ret, call,
              refreshCalls, codeCalls, profileCalls, browserOpened, loggedOut,
              redirectUrl>>

discVars == <<elapsed, settled, timeout, isResolved, timeoutHandle, closeCalls,
              bound, sendTimers, sent, consoles, probes, log, firstSend,
              returned, settledAt, settleCalls>>

netVars == <<interfaces, addresses>>

wakeVars == <<wake, boundSocket, datagrams>>

regVars == <<credentials, wakeCredential>>

acctVars == <<user_id, accountId>>

serverVars == <<discoveredConsoles, scanResult, latecomers, toolResult>>

vars == <<authVars, discVars, netVars, wakeVars, regVars, acctVars, serverVars>>

\* The variables of the other modules, which a function of one module leaves alone.
otherThanAuth == <<discVars, netVars, wakeVars, regVars, acctVars, serverVars>>
otherThanDisc == <<authVars, netVars, wakeVars, regVars, acctVars, serverVars>>
otherThanNet == <<authVars, discVars, wakeVars, regVars, acctVars, serverVars>>
otherThanWake == <<authVars, discVars, netVars, regVars, acctVars, serverVars>>
otherThanReg == <<authVars, discVars, netVars, wakeVars, acctVars, serverVars>>
otherThanAcct == <<authVars, discVars, netVars, wakeVars, regVars, serverVars>>

Null == <<>>

NoResponse == [access_token |-> 0, refresh_token |-> 0, expires_in |-> 0]

NoRet == [op |-> "none", status |-> "none", value |-> 0, line |-> 0]

\* ------------------------------------------------------------ storage.ts

\* loadTokens without its expiry test: whatever the file holds is returned.
loadTokens_NoExpiryTest == credentialsFile

\* loadTokens(): null when the file does not exist or the stored expiry has
\* passed, else the stored TokenData.
loadTokens ==
  IF credentialsFile = Null THEN Null
  ELSE IF credentialsFile[1].expiry < now THEN Null
  ELSE credentialsFile

\* saveTokens(tokens): the file holds exactly tokens afterwards.
saveTokens(tokens) == credentialsFile' = <<tokens>>

\* --------------------------------------------------------------- auth.ts

\* A call begins: remember the clock and the file; the call's counters restart.
Begin ==
  /\ pc = "idle"
  /\ call' = [now |-> now, file |-> credentialsFile]

\* The call ends with a value (status "ok") or an exception ("throw");
\* line is the line of the return or throw statement.
Return(op, status, value, line) ==
  /\ pc' = "idle"
  /\ ret' = [op |-> op, status |-> status, value |-> value, line |-> line]

\* refreshToken(rt) up to its first await: the refresh POST is on its way.
SendRefresh(op) ==
  /\ pc' = "refresh_post"
  /\ caller' = op
  /\ ret' = NoRet

\* The comparison of getAccessToken turned round.
isExpired_Inverted(tokens) == tokens.expiry > now

\* The test of getAccessToken on the loaded tokens.
isExpired(tokens) == tokens.expiry < now

\* The test of startAuthentication on the loaded tokens.
isCached(existingTokens) ==
  existingTokens # Null /\ existingTokens[1].expiry > now

\* TokenData built from a token response and a user id, at the current time.
tokenData(userId) ==
  [accessToken |-> tokenResponse.access_token,
   refreshToken |-> tokenResponse.refresh_token,
   expiry |-> now + tokenResponse.expires_in * 1000,
   userInfo |-> userId]

\* getAccessToken reading the stored record itself and testing nothing.
getAccessToken_NoExpiryTest ==
  /\ UNCHANGED otherThanAuth
  /\ Begin
  /\ IF credentialsFile = Null
     THEN Return("getAccessToken", "throw", 0, 490)
     ELSE Return("getAccessToken", "ok", credentialsFile[1].accessToken, 500)
  /\ refreshCalls' = 0
  /\ codeCalls' = 0
  /\ profileCalls' = 0
  /\ browserOpened' = FALSE
  /\ UNCHANGED <<now, credentialsFile, issued, caller, tokenResponse, loggedOut, redirectUrl>>

\* getAccessToken()
getAccessToken ==
  /\ UNCHANGED otherThanAuth
  /\ Begin
  /\ LET tokens == loadTokens IN
       IF tokens = Null
       THEN /\ Return("getAccessToken", "throw", 0, 490)
            /\ refreshCalls' = 0
            /\ UNCHANGED caller
       ELSE IF isExpired(tokens[1])
       THEN /\ SendRefresh("getAccessToken")
            /\ refreshCalls' = 1
       ELSE /\ Return("getAccessToken", "ok", tokens[1].accessToken, 500)
            /\ refreshCalls' = 0
            /\ UNCHANGED caller
  /\ codeCalls' = 0
  /\ profileCalls' = 0
  /\ browserOpened' = FALSE
  /\ UNCHANGED <<now, credentialsFile, issued, tokenResponse, loggedOut, redirectUrl>>

\* startAuthentication()
startAuthentication ==
  /\ UNCHANGED otherThanAuth
  /\ Begin
  /\ LET existingTokens == loadTokens IN
       IF isCached(existingTokens)
       THEN /\ Return("startAuthentication", "ok", 0, 443)
            /\ refreshCalls' = 0
            /\ browserOpened' = FALSE
            /\ UNCHANGED caller
       ELSE IF existingTokens # Null /\ existingTokens[1].refreshToken # 0
       THEN /\ SendRefresh("startAuthentication")
            /\ refreshCalls' = 1
            /\ browserOpened' = FALSE
       ELSE /\ Return("startAuthentication", "ok", 0, 470)
            /\ refreshCalls' = 0
            /\ browserOpened' = TRUE
            /\ UNCHANGED caller
  /\ codeCalls' = 0
  /\ profileCalls' = 0
  /\ UNCHANGED <<now, credentialsFile, issued, tokenResponse, loggedOut, redirectUrl>>

\* refreshToken threw: getAccessToken lets the exception through,
\* startAuthentication catches it and goes on to the browser flow.
RefreshThrows(line) ==
  IF caller = "getAccessToken"
  THEN /\ Return("getAccessToken", "throw", 0, line)
       /\ UNCHANGED browserOpened
  ELSE /\ Return("startAuthentication", "ok", 0, 470)
       /\ browserOpened' = TRUE

\* refreshToken: the provider answers the refresh POST.
RefreshPostOk ==
  /\ UNCHANGED otherThanAuth
  /\ pc = "refresh_post"
  /\ issued < MaxIssued
  /\ \E e \in ExpiresIn :
       tokenResponse' = [access_token |-> issued + 1,
                         refresh_token |-> issued + 1,
                         expires_in |-> e]
  /\ issued' = issued + 1
  /\ pc' = "refresh_userinfo"
  /\ profileCalls' = profileCalls + 1
  /\ UNCHANGED <<now, credentialsFile, caller, ret, call, refreshCalls,
                 codeCalls, browserOpened, loggedOut, redirectUrl>>

\* refreshToken: the refresh POST fails.
RefreshPostFail ==
  /\ UNCHANGED otherThanAuth
  /\ pc = "refresh_post"
  /\ RefreshThrows(393)
  /\ UNCHANGED <<now, credentialsFile, issued, caller, tokenResponse, call,
                 refreshCalls, codeCalls, profileCalls, loggedOut, redirectUrl>>

\* refreshToken: the profile lookup answers; the new TokenData is saved and
\* handed to the caller.
RefreshUserInfoOk ==
  /\ UNCHANGED otherThanAuth
  /\ pc = "refresh_userinfo"
  /\ \E u \in UserIds : saveTokens(tokenData(u))
  /\ IF caller = "getAccessToken"
     THEN Return("getAccessToken", "ok", tokenResponse.access_token, 497)
     ELSE Return("startAuthentication", "ok", 0, 451)
  /\ tokenResponse' = NoResponse
  /\ UNCHANGED <<now, issued, caller, call, refreshCalls, codeCalls,
                 profileCalls, browserOpened, loggedOut, redirectUrl>>

\* refreshToken: the profile lookup fails.
RefreshUserInfoFail ==
  /\ UNCHANGED otherThanAuth
  /\ pc = "refresh_userinfo"
  /\ RefreshThrows(351)
  /\ tokenResponse' = NoResponse
  /\ UNCHANGED <<now, credentialsFile, issued, caller, call, refreshCalls,
                 codeCalls, profileCalls, loggedOut, redirectUrl>>

\* The test of authenticateWithRedirectUrl passing every URL.
noCode_Never(url) == FALSE

\* !code, for code = url.searchParams.get('code'): the URL has no code
\* parameter, or an empty one.
noCode(url) == url.code = Null \/ url.code[1] = 0

\* authenticateWithRedirectUrl(redirectUrl)
authenticateWithRedirectUrl ==
  /\ UNCHANGED otherThanAuth
  /\ Begin
  /\ \E url \in RedirectUrls :
       /\ redirectUrl' = url
       /\ IF noCode(url)
          THEN /\ Return("authenticateWithRedirectUrl", "throw", 0, 411)
               /\ codeCalls' = 0
          ELSE /\ pc' = "auth_post"
               /\ ret' = NoRet
               /\ codeCalls' = 1
  /\ refreshCalls' = 0
  /\ profileCalls' = 0
  /\ browserOpened' = FALSE
  /\ UNCHANGED <<now, credentialsFile, issued, caller, tokenResponse, loggedOut>>

\* authenticateWithRedirectUrl saving the tokens as soon as the exchange
\* answered, before the profile lookup.
AuthPostOk_SavesEarly ==
  /\ UNCHANGED otherThanAuth
  /\ pc = "auth_post"
  /\ issued < MaxIssued
  /\ \E e \in ExpiresIn :
       /\ tokenResponse' = [access_token |-> issued + 1,
                            refresh_token |-> issued + 1,
                            expires_in |-> e]
       /\ saveTokens([accessToken |-> issued + 1, refreshToken |-> issued + 1,
                      expiry |-> now + e * 1000, userInfo |-> 0])
  /\ issued' = issued + 1
  /\ pc' = "auth_userinfo"
  /\ profileCalls' = profileCalls + 1
  /\ UNCHANGED <<now, caller, ret, call, refreshCalls,
                 codeCalls, browserOpened, loggedOut, redirectUrl>>

\* exchangeCodeForToken: the provider answers.
AuthPostOk ==
  /\ UNCHANGED otherThanAuth
  /\ pc = "auth_post"
  /\ issued < MaxIssued
  /\ \E e \in ExpiresIn :
       tokenResponse' = [access_token |-> issued + 1,
                         refresh_token |-> issued + 1,
                         expires_in |-> e]
  /\ issued' = issued + 1
  /\ pc' = "auth_userinfo"
  /\ profileCalls' = profileCalls + 1
  /\ UNCHANGED <<now, credentialsFile, caller, ret, call, refreshCalls,
                 codeCalls, browserOpened, loggedOut, redirectUrl>>

\* exchangeCodeForToken fails.
AuthPostFail ==
  /\ UNCHANGED otherThanAuth
  /\ pc = "auth_post"
  /\ Return("authenticateWithRedirectUrl", "throw", 0, 314)
  /\ UNCHANGED <<now, credentialsFile, issued, caller, tokenResponse, call,
                 refreshCalls, codeCalls, profileCalls, browserOpened, loggedOut, redirectUrl>>

\* getUserInfo answers: the TokenData is saved and returned.
AuthUserInfoOk ==
  /\ UNCHANGED otherThanAuth
  /\ pc = "auth_userinfo"
  /\ \E u \in UserIds : saveTokens(tokenData(u))
  /\ Return("authenticateWithRedirectUrl", "ok", tokenResponse.access_token, 431)
  /\ tokenResponse' = NoResponse
  /\ loggedOut' = FALSE
  /\ UNCHANGED <<now, issued, caller, call, refreshCalls, codeCalls,
                 profileCalls, browserOpened, redirectUrl>>

\* getUserInfo fails.
AuthUserInfoFail ==
  /\ UNCHANGED otherThanAuth
  /\ pc = "auth_userinfo"
  /\ Return("authenticateWithRedirectUrl", "throw", 0, 351)
  /\ tokenResponse' = NoResponse
  /\ UNCHANGED <<now, credentialsFile, issued, caller, call, refreshCalls,
                 codeCalls, profileCalls, browserOpened, loggedOut, redirectUrl>>

\* getCurrentUserInfo()
getCurrentUserInfo ==
  /\ UNCHANGED otherThanAuth
  /\ Begin
  /\ LET tokens == loadTokens IN
       IF tokens = Null \/ tokens[1].userInfo = 0
       THEN Return("getCurrentUserInfo", "throw", 0, 479)
       ELSE Return("getCurrentUserInfo", "ok", tokens[1].userInfo, 481)
  /\ refreshCalls' = 0
  /\ codeCalls' = 0
  /\ profileCalls' = 0
  /\ browserOpened' = FALSE
  /\ UNCHANGED <<now, credentialsFile, issued, caller, tokenResponse, loggedOut, redirectUrl>>

\* logout()
logout ==
  /\ UNCHANGED otherThanAuth
  /\ Begin
  /\ saveTokens([accessToken |-> 0, refreshToken |-> 0, expiry |-> 0, userInfo |-> 0])
  /\ Return("logout", "ok", 0, 513)
  /\ loggedOut' = TRUE
  /\ refreshCalls' = 0
  /\ codeCalls' = 0
  /\ profileCalls' = 0
  /\ browserOpened' = FALSE
  /\ UNCHANGED <<now, issued, caller, tokenResponse, redirectUrl>>

\* Time passes, between calls or while a request is in flight.
Tick ==
  /\ UNCHANGED otherThanAuth
  /\ now + TickMs <= MaxTime
  /\ now' = now + TickMs
  /\ UNCHANGED <<credentialsFile, issued, pc, caller, tokenResponse, ret, call,
                 refreshCalls, codeCalls, profileCalls, browserOpened, loggedOut, redirectUrl>>

InitAuth ==
  /\ now = TickMs
  /\ credentialsFile = Null
  /\ issued = 0
  /\ pc = "idle"
  /\ caller = "none"
  /\ tokenResponse = NoResponse
  /\ ret = NoRet
  /\ call = [now |-> TickMs, file |-> Null]
  /\ refreshCalls = 0
  /\ codeCalls = 0
  /\ profileCalls = 0
  /\ browserOpened = FALSE
  /\ loggedOut = FALSE
  /\ redirectUrl = [code |-> Null]

NextAuth ==
  \/ getAccessToken
  \/ startAuthentication
  \/ RefreshPostOk
  \/ RefreshPostFail
  \/ RefreshUserInfoOk
  \/ RefreshUserInfoFail
  \/ authenticateWithRedirectUrl
  \/ AuthPostOk
  \/ AuthPostFail
  \/ AuthUserInfoOk
  \/ AuthUserInfoFail
  \/ getCurrentUserInfo
  \/ logout
  \/ Tick

\* ---------------------------------------------------------- discovery.ts

\* socket.close() inside try/catch
closeSocket == closeCalls' = closeCalls + 1

\* resolve(consoles) or reject(error): the first call settles the promise.
settle(how) ==
  /\ settled' = IF settled = "pending" THEN how ELSE settled
  /\ settledAt' = IF settled = "pending" THEN elapsed ELSE settledAt
  /\ returned' = IF settled = "pending" /\ how = "resolved" THEN consoles ELSE returned
  /\ settleCalls' = settleCalls + 1

\* discoverConsoles(options): the socket is created, the timeout timer armed,
\* the handlers registered and bind requested.
discoverConsoles ==
  /\ UNCHANGED otherThanDisc
  /\ settled = "idle"
  /\ \E option \in TimeoutOptions :
       timeout' = IF option = 0 THEN DefaultTimeout ELSE option
  /\ settled' = "pending"
  /\ timeoutHandle' = "armed"
  /\ UNCHANGED <<elapsed, isResolved, closeCalls, bound, sendTimers, sent,
                 consoles, probes, log, firstSend, returned, settledAt, settleCalls>>

\* The timeout callback made to wait for the liveness probes: it settles
\* the scan only when no message handler is waiting.
TimeoutFires_WaitsForProbes ==
  /\ UNCHANGED otherThanDisc
  /\ timeoutHandle = "armed"
  /\ elapsed >= timeout
  /\ timeoutHandle' = "fired"
  /\ IF isResolved \/ probes # {}
     THEN UNCHANGED <<isResolved, closeCalls, settled, settledAt, returned, settleCalls>>
     ELSE /\ isResolved' = TRUE
          /\ closeSocket
          /\ settle("resolved")
  /\ UNCHANGED <<elapsed, timeout, bound, sendTimers, sent, consoles, probes, log,
                 firstSend>>

\* The timeout callback (setTimeout(..., timeout)).
TimeoutFires ==
  /\ UNCHANGED otherThanDisc
  /\ timeoutHandle = "armed"
  /\ elapsed >= timeout
  /\ timeoutHandle' = "fired"
  /\ IF isResolved
     THEN UNCHANGED <<isResolved, closeCalls, settled, settledAt, returned, settleCalls>>
     ELSE /\ isResolved' = TRUE
          /\ closeSocket
          /\ settle("resolved")
  /\ UNCHANGED <<elapsed, timeout, bound, sendTimers, sent, consoles, probes, log,
                 firstSend>>

\* alreadyFound comparing the hostId only.
alreadyFound_HostIdOnly(hostId, address) ==
  \E n \in 1..Len(consoles) : consoles[n].hostId = hostId

\* alreadyFound: a Console with the same hostId or the same address is in the list.
alreadyFound(hostId, address) ==
  \E n \in 1..Len(consoles) :
    consoles[n].hostId = hostId \/ consoles[n].ipAddress = address

\* The message handler after parseDiscoveryResponse: the duplicate test and
\* the push.  probe is what the ping did when the status came from
\* isPs5Awake, "none" when it came from the datagram.
pushConsole(rcv, hostId, status, address, probe) ==
  consoles' =
    IF alreadyFound(hostId, address)
    THEN consoles
    ELSE Append(consoles, [hostId |-> hostId, status |-> status,
                           ipAddress |-> address, rcv |-> rcv, probe |-> probe])

\* The values a datagram may carry for a field the code only compares for
\* equality: those seen so far and the first of names not seen yet (the
\* responses of a scan are the same up to the naming of hosts and addresses).
upToFirstNew(names, seen) ==
  {names[i] : i \in {j \in 1..Len(names) :
                       \A k \in 1..(j - 1) : names[k] \in seen}}

\* isPs5Awake answering true whatever the ping did.
isPs5Awake_AlwaysTrue(outcome) == TRUE

\* isPs5Awake(ipAddress): true when the output of ping has a reply in it,
\* false when it has none and when exec rejects (the catch block).
isPs5Awake(outcome) == outcome = "reply"

\* socket.on('message'): a datagram arrives.  A response with a status line
\* is parsed and handled at once (its await resumes in the same turn of the
\* event loop); one without waits for the liveness probe.  A malformed
\* datagram has no key:value line: the parser finds neither host-id nor
\* status.  A datagram that has other lines but neither of these two is
\* handled exactly as a malformed one and is not enumerated apart from it.
Message ==
  /\ UNCHANGED otherThanDisc
  /\ settled # "idle"
  /\ bound
  /\ closeCalls = 0
  /\ Len(log) < MaxMsgs
  /\ \E malformed \in BOOLEAN,
        hostId \in {""} \cup upToFirstNew(HostIds, {log[k].hostId : k \in 1..Len(log)}),
        address \in upToFirstNew(Addresses, {log[k].ipAddress : k \in 1..Len(log)}),
        status \in Statuses :
       /\ malformed <=> (hostId = "" /\ status = "")
       /\ log' = Append(log, [hostId |-> hostId, hasStatus |-> status # "",
                              ipAddress |-> address, malformed |-> malformed])
       /\ IF isResolved
          THEN UNCHANGED <<consoles, probes>>
          ELSE IF status # ""
          THEN /\ pushConsole(Len(log) + 1, hostId, status, address, "none")
               /\ UNCHANGED probes
          ELSE /\ probes' = probes \cup {[rcv |-> Len(log) + 1, hostId |-> hostId,
                                          ipAddress |-> address]}
               /\ UNCHANGED consoles
  /\ UNCHANGED <<elapsed, settled, timeout, isResolved, timeoutHandle, closeCalls,
                 bound, sendTimers, sent, firstSend, returned, settledAt, settleCalls>>

\* isPs5Awake answers and the message handler that waited for it goes on:
\* AWAKE when the ping succeeded, STANDBY when it failed or threw.
ProbeDone ==
  /\ UNCHANGED otherThanDisc
  /\ \E p \in probes, outcome \in PingOutcomes :
       /\ pushConsole(p.rcv, p.hostId,
                       IF isPs5Awake(outcome) THEN "AWAKE" ELSE "STANDBY",
                       p.ipAddress, outcome)
       /\ probes' = probes \ {p}
  /\ UNCHANGED <<elapsed, settled, timeout, isResolved, timeoutHandle, closeCalls,
                 bound, sendTimers, sent, log, firstSend, returned, settledAt, settleCalls>>

\* An error handler that does not test isResolved.
SocketError_NoSettledTest ==
  /\ UNCHANGED otherThanDisc
  /\ settled # "idle"
  /\ closeCalls < 2
  /\ isResolved' = TRUE
  /\ timeoutHandle' = IF timeoutHandle = "armed" THEN "cleared" ELSE timeoutHandle
  /\ closeSocket
  /\ settle("rejected")
  /\ UNCHANGED <<elapsed, timeout, bound, sendTimers, sent, consoles, probes, log,
                 firstSend>>

\* socket.on('error'): the error event comes at any time after the socket
\* was created; one that comes after the scan has settled finds isResolved set.
SocketError ==
  /\ UNCHANGED otherThanDisc
  /\ settled # "idle"
  /\ IF isResolved
     THEN UNCHANGED <<isResolved, timeoutHandle, closeCalls, settled, settledAt, returned, settleCalls>>
     ELSE /\ isResolved' = TRUE
          /\ timeoutHandle' = "cleared"
          /\ closeSocket
          /\ settle("rejected")
  /\ UNCHANGED <<elapsed, timeout, bound, sendTimers, sent, consoles, probes, log,
                 firstSend>>

\* The bind callback: setBroadcast, then one send timer per broadcast address,
\* the address at index i after i * 100 ms.
BindDone ==
  /\ UNCHANGED otherThanDisc
  /\ settled # "idle"
  /\ ~bound
  /\ closeCalls = 0
  /\ bound' = TRUE
  /\ IF isResolved
     THEN UNCHANGED sendTimers
     ELSE \E n \in 1..MaxAddrs :
            sendTimers' = {[index |-> i, due |-> elapsed + i * SendDelayMs] : i \in 0..(n - 1)}
  /\ UNCHANGED <<elapsed, settled, timeout, isResolved, timeoutHandle, closeCalls,
                 sent, consoles, probes, log, firstSend, returned, settledAt, settleCalls>>

\* The bind callback when setBroadcast or getBroadcastAddresses throws: the catch block.
BindThrows ==
  /\ UNCHANGED otherThanDisc
  /\ settled # "idle"
  /\ ~bound
  /\ closeCalls = 0
  /\ bound' = TRUE
  /\ IF isResolved
     THEN UNCHANGED <<isResolved, timeoutHandle, closeCalls, settled, settledAt, returned, settleCalls>>
     ELSE /\ isResolved' = TRUE
          /\ timeoutHandle' = "cleared"
          /\ closeSocket
          /\ settle("rejected")
  /\ UNCHANGED <<elapsed, timeout, sendTimers, sent, consoles, probes, log,
                 firstSend>>

\* Timers run in the order of their expiry, and timers of equal expiry in
\* the order they were armed: the timeout timer, armed before bind is
\* requested, runs before a send timer armed at an earlier instant than
\* the one it is due at (index > 0) and due no earlier than the timeout.
timeoutRunsFirst(t) ==
  /\ t.index > 0
  /\ timeoutHandle = "armed"
  /\ timeout <= t.due

\* A staggered send timer that sends whether the scan has settled or not.
SendTimerFires_NoSettledTest ==
  /\ UNCHANGED otherThanDisc
  /\ \E t \in sendTimers, error \in BOOLEAN :
       /\ t.due <= elapsed
       /\ ~timeoutRunsFirst(t)
       /\ sendTimers' = sendTimers \ {t}
       /\ sent' = sent \cup {t.index}
       /\ firstSend' = IF firstSend # "none" THEN firstSend
                        ELSE IF error THEN "error" ELSE "ok"
  /\ UNCHANGED <<elapsed, settled, timeout, isResolved, timeoutHandle, closeCalls,
                 bound, consoles, probes, log, returned, settledAt, settleCalls>>

\* A staggered send timer runs: the datagram is sent unless the scan has
\* settled.  The send callback only logs an error it is given.
SendTimerFires ==
  /\ UNCHANGED otherThanDisc
  /\ \E t \in sendTimers, error \in BOOLEAN :
       /\ t.due <= elapsed
       /\ ~timeoutRunsFirst(t)
       /\ sendTimers' = sendTimers \ {t}
       /\ isResolved => ~error
       /\ sent' = IF isResolved THEN sent ELSE sent \cup {t.index}
       /\ firstSend' = IF isResolved \/ firstSend # "none" THEN firstSend
                        ELSE IF error THEN "error" ELSE "ok"
  /\ UNCHANGED <<elapsed, settled, timeout, isResolved, timeoutHandle, closeCalls,
                 bound, consoles, probes, log, returned, settledAt, settleCalls>>

\* The instants at which a timer that has not run yet is due.
dueTimes ==
  {t.due : t \in sendTimers} \cup (IF timeoutHandle = "armed" THEN {timeout} ELSE {})

\* Time goes on to the next instant a timer is due at; a timer that is due
\* runs before time goes on.
Elapse ==
  /\ UNCHANGED otherThanDisc
  /\ dueTimes # {}
  /\ \A d \in dueTimes : d > elapsed
  /\ elapsed' = CHOOSE d \in dueTimes : \A e \in dueTimes : d <= e
  /\ UNCHANGED <<settled, timeout, isResolved, timeoutHandle, closeCalls, bound,
                 sendTimers, sent, consoles, probes, log, firstSend,
                 returned, settledAt, settleCalls>>

InitDisc ==
  /\ elapsed = 0
  /\ settled = "idle"
  /\ timeout = 0
  /\ isResolved = FALSE
  /\ timeoutHandle = "none"
  /\ closeCalls = 0
  /\ bound = FALSE
  /\ sendTimers = {}
  /\ sent = {}
  /\ consoles = <<>>
  /\ probes = {}
  /\ log = <<>>
  /\ firstSend = "none"
  /\ returned = <<>>
  /\ settledAt = 0
  /\ settleCalls = 0

NextDisc ==
  \/ discoverConsoles
  \/ TimeoutFires
  \/ Message
  \/ ProbeDone
  \/ SocketError
  \/ BindDone
  \/ BindThrows
  \/ SendTimerFires
  \/ Elapse

\* ------------------------------------- discovery.ts: getBroadcastAddresses

\* An IPv4 address or netmask is the sequence of its four octets
\* (split('.').map(Number)).
GlobalBroadcast == <<255, 255, 255, 255>>

\* The addresses os.networkInterfaces() may list: loopback, an IPv6 address,
\* two hosts of one /24, a /22, a point-to-point /32 and an interface with
\* the netmask 0.0.0.0.
Ifaces ==
  { [internal |-> TRUE,  family |-> "IPv4", address |-> <<127, 0, 0, 1>>,    netmask |-> <<255, 0, 0, 0>>],
    [internal |-> FALSE, family |-> "IPv6", address |-> <<254, 128, 0, 1>>,  netmask |-> <<255, 255, 0, 0>>],
    [internal |-> FALSE, family |-> "IPv4", address |-> <<192, 168, 1, 50>>, netmask |-> <<255, 255, 255, 0>>],
    [internal |-> FALSE, family |-> "IPv4", address |-> <<192, 168, 1, 77>>, netmask |-> <<255, 255, 255, 0>>],
    [internal |-> FALSE, family |-> "IPv4", address |-> <<10, 0, 5, 9>>,     netmask |-> <<255, 255, 252, 0>>],
    [internal |-> FALSE, family |-> "IPv4", address |-> <<10, 8, 0, 2>>,     netmask |-> <<255, 255, 255, 255>>],
    [internal |-> FALSE, family |-> "IPv4", address |-> <<10, 1, 2, 3>>,     netmask |-> <<0, 0, 0, 0>>] }

\* ~x of a 32-bit integer
BitNot(x) == -x - 1

\* x & 255: the low eight bits of x in two's complement
And255(x) == x % 256

\* a | b of two non-negative integers
RECURSIVE BitOr(_, _)
BitOr(a, b) ==
  IF a = 0 THEN b
  ELSE IF b = 0 THEN a
  ELSE (IF a % 2 = 1 \/ b % 2 = 1 THEN 1 ELSE 0) + 2 * BitOr(a \div 2, b \div 2)

\* ipParts.map((part, i) => part | (~maskParts[i] & 255))
broadcastOf(iface) ==
  [i \in 1..Len(iface.address) |->
     BitOr(iface.address[i], And255(BitNot(iface.netmask[i])))]

\* addresses.includes(x) answering false whatever the list holds.
includes_Never(list, x) == FALSE

\* addresses.includes(x)
includes(list, x) == \E n \in 1..Len(list) : list[n] = x

\* The two loops of getBroadcastAddresses over the interfaces not yet
\* visited: internal and non-IPv4 addresses are skipped, a broadcast address
\* is pushed unless the list has it.
RECURSIVE derived(_, _)
derived(ifaces, addrs) ==
  IF ifaces = <<>> THEN addrs
  ELSE LET iface == Head(ifaces)
           broadcast == broadcastOf(iface)
       IN derived(Tail(ifaces),
                  IF iface.internal \/ iface.family # "IPv4" THEN addrs
                  ELSE IF includes(addrs, broadcast) THEN addrs
                  ELSE Append(addrs, broadcast))

\* getBroadcastAddresses(): the derived addresses, then the global
\* broadcast address unless the list has it.  The bind callback of a scan
\* calls it once.
getBroadcastAddresses ==
  /\ UNCHANGED otherThanNet
  /\ addresses = <<>>
  /\ \E n \in 0..MaxIfaces : \E ifaces \in [1..n -> Ifaces] :
       /\ interfaces' = ifaces
       /\ addresses' =
            LET addrs == derived(ifaces, <<>>) IN
              IF includes(addrs, GlobalBroadcast) THEN addrs
              ELSE Append(addrs, GlobalBroadcast)

InitNet ==
  /\ interfaces = <<>>
  /\ addresses = <<>>

NextNet == getBroadcastAddresses

\* ------------------------------------------------------------- wakeup.ts

\* setTimeout(..., 2000) of the send callback
GraceMs == 2000

\* createWakeupMessage without its user-credential line.
createWakeupMessage_NoCredential(credential) ==
  << <<"WAKEUP * HTTP/1.1">>,
     <<"client-type", "vr">>,
     <<"auth-type", "R">>,
     <<"model", "w">>,
     <<"app-type", "r">>,
     <<"device-discovery-protocol-version", "00030010">> >>

\* createWakeupMessage(credential): the lines joined by '\n'; a line is the
\* sequence of its parts around ':'.
createWakeupMessage(credential) ==
  << <<"WAKEUP * HTTP/1.1">>,
     <<"client-type", "vr">>,
     <<"auth-type", "R">>,
     <<"model", "w">>,
     <<"app-type", "r">>,
     <<"user-credential", credential>>,
     <<"device-discovery-protocol-version", "00030010">> >>

\* A call of wakeConsole that has not been made.
NoWake ==
  [pc |-> "idle", host |-> "", credential |-> "", port |-> <<>>,
   isSocketClosed |-> FALSE, closeCalls |-> 0, sends |-> 0,
   settled |-> "pending", failure |-> "none", waited |-> 0,
   overlapped |-> FALSE]

\* if (!isSocketClosed) { isSocketClosed = true; socket.close(); } without its test.
closeOnce_Unguarded(c) ==
  [c EXCEPT !.isSocketClosed = TRUE, !.closeCalls = @ + 1]

\* if (!isSocketClosed) { isSocketClosed = true; socket.close(); }
closeOnce(c) ==
  IF c.isSocketClosed THEN c
  ELSE [c EXCEPT !.isSocketClosed = TRUE, !.closeCalls = @ + 1]

\* The timer of the send callback running without any delay.
timerDue_AtOnce(c) == TRUE

\* The timer of the send callback is due: 2000 ms have passed since it was armed.
timerDue(c) == c.waited >= GraceMs

\* resolve(true) or reject(err): the first call settles the promise.
settleWake(c, how) ==
  IF c.settled = "pending"
  THEN [c EXCEPT !.settled = how]
  ELSE c

\* A path that ends the call with an error: the socket is closed, the
\* promise rejected.
failWake(c) == settleWake(closeOnce(c), "rejected")

\* The call i goes on as c: its record is replaced, and BIND_PORT is free
\* again when its socket held it and is closed now.
proceed(i, c, holder) ==
  /\ wake' = [wake EXCEPT ![i] = c]
  /\ boundSocket' = IF holder = i /\ c.isSocketClosed THEN 0 ELSE holder

\* wakeConsole(params) up to the end of the executor: the socket is created,
\* the handlers registered and bind requested.  bindThrows: socket.bind
\* throws at once (the catch block of the executor).
wakeConsole ==
  /\ UNCHANGED otherThanWake
  /\ \E i \in 1..MaxWakes :
       /\ wake[i].pc = "idle"
       /\ \A j \in 1..(i - 1) : wake[j].pc # "idle"
       /\ \E target \in upToFirstNew(WakeTargets,
                                       {[host |-> wake[j].host, credential |-> wake[j].credential] :
                                          j \in 1..(i - 1)}),
             port \in PortOptions,
             bindThrows \in BOOLEAN :
            LET c == [wake[i] EXCEPT
                        !.host = target.host, !.credential = target.credential,
                        !.port = port,
                        !.overlapped = \E j \in 1..MaxWakes : wake[j].pc = "grace"]
            IN IF bindThrows
               THEN proceed(i, [failWake(c) EXCEPT !.pc = "end", !.failure = "bind"],
                            boundSocket)
               ELSE proceed(i, [c EXCEPT !.pc = "binding"], boundSocket)
  /\ UNCHANGED datagrams

\* socket.once('listening'): the port is bound; the message is built and
\* handed to socket.send, which throws when the port is not one it sends to.
Listening ==
  /\ UNCHANGED otherThanWake
  /\ boundSocket = 0
  /\ \E i \in 1..MaxWakes :
       /\ wake[i].pc = "binding"
       /\ LET c == wake[i]
              port == IF c.port = <<>> THEN DefaultWakePort ELSE c.port[1]
          IN IF port = 0
             THEN /\ proceed(i, [failWake(c) EXCEPT !.pc = "end", !.failure = "send"], i)
                  /\ UNCHANGED datagrams
             ELSE /\ proceed(i, [c EXCEPT !.pc = "sending", !.sends = @ + 1], i)
                  /\ datagrams' = datagrams \cup
                       {[call |-> i, from |-> BIND_PORT, host |-> c.host, port |-> port,
                         message |-> createWakeupMessage(c.credential)]}

\* socket.on('error') while bind is pending: the bind failed, with
\* EADDRINUSE when another open socket of this process holds BIND_PORT, or
\* for a reason outside it.
BindError ==
  /\ UNCHANGED otherThanWake
  /\ \E i \in 1..MaxWakes :
       /\ wake[i].pc = "binding"
       /\ proceed(i, [failWake(wake[i]) EXCEPT
                         !.pc = "end",
                         !.failure = IF boundSocket # 0 THEN "EADDRINUSE" ELSE "bind"],
                  boundSocket)
  /\ UNCHANGED datagrams

\* socket.on('error') after the bind, while the socket is open.
WakeSocketError ==
  /\ UNCHANGED otherThanWake
  /\ \E i \in 1..MaxWakes :
       /\ wake[i].pc \in {"sending", "grace"}
       /\ ~wake[i].isSocketClosed
       /\ proceed(i, failWake(wake[i]), boundSocket)
  /\ UNCHANGED datagrams

\* The send callback: with an error the call fails; without, the timer that
\* closes the socket and resolves is armed (waited counts the ms since).
SendCallback ==
  /\ UNCHANGED otherThanWake
  /\ \E i \in 1..MaxWakes, error \in BOOLEAN :
       /\ wake[i].pc = "sending"
       /\ IF error
          THEN proceed(i, [failWake(wake[i]) EXCEPT !.pc = "end", !.failure = "send"],
                       boundSocket)
          ELSE proceed(i, [wake[i] EXCEPT !.pc = "grace"], boundSocket)
  /\ UNCHANGED datagrams

\* The timer of the send callback runs: the socket is closed, resolve(true).
GraceTimer ==
  /\ UNCHANGED otherThanWake
  /\ \E i \in 1..MaxWakes :
       /\ wake[i].pc = "grace"
       /\ timerDue(wake[i])
       /\ proceed(i, [settleWake(closeOnce(wake[i]), "resolved") EXCEPT !.pc = "end"],
                  boundSocket)
  /\ UNCHANGED datagrams

\* Time passes while a timer is armed; a timer that is due runs first.
WakeTime ==
  /\ UNCHANGED otherThanWake
  /\ \E i \in 1..MaxWakes : wake[i].pc = "grace"
  /\ \A i \in 1..MaxWakes : wake[i].pc = "grace" => ~timerDue(wake[i])
  /\ wake' = [i \in 1..MaxWakes |->
                IF wake[i].pc = "grace"
                THEN [wake[i] EXCEPT !.waited = @ + WakeTick]
                ELSE wake[i]]
  /\ UNCHANGED <<boundSocket, datagrams>>

InitWake ==
  /\ wake = [i \in 1..MaxWakes |-> NoWake]
  /\ boundSocket = 0
  /\ datagrams = {}

NextWake ==
  \/ wakeConsole
  \/ Listening
  \/ BindError
  \/ WakeSocketError
  \/ SendCallback
  \/ GraceTimer
  \/ WakeTime

\* -------------------------------------------------------- registration.ts

\* No getWakeCredential call has ended.
NoWakeCredential ==
  [hostId |-> "", creds |-> Null, status |-> "none", value |-> Null]

\* storage.write(id, credentials): playactor stores a credential for a device.
storageWrite ==
  /\ UNCHANGED otherThanReg
  /\ \E id \in DeviceIds, authType \in AuthTypes, userCredential \in UserCredentials :
       credentials' = [credentials EXCEPT
                         ![id] = <<[authType |-> authType, userCredential |-> userCredential]>>]
  /\ UNCHANGED wakeCredential

\* getDeviceCredentials(hostId): storage.read(hostId)
getDeviceCredentials(hostId) == credentials[hostId]

\* The test of getWakeCredential passing every credential.
isRemotePlay_Any(creds) == TRUE

\* The test of getWakeCredential: creds['auth-type'] is 'R'.
isRemotePlay(creds) == creds.authType = "R"

\* getWakeCredential(hostId): null without a stored credential, an Error
\* for one that is not a Remote Play credential, else its user-credential.
wakeCredentialFor(hostId) ==
  LET creds == getDeviceCredentials(hostId) IN
    IF creds = Null
    THEN [hostId |-> hostId, creds |-> creds, status |-> "return", value |-> Null]
    ELSE IF ~isRemotePlay(creds[1])
    THEN [hostId |-> hostId, creds |-> creds, status |-> "throw", value |-> Null]
    ELSE [hostId |-> hostId, creds |-> creds, status |-> "return",
          value |-> <<creds[1].userCredential>>]

\* A getWakeCredential call.
getWakeCredential ==
  /\ UNCHANGED otherThanReg
  /\ \E hostId \in DeviceIds : wakeCredential' = wakeCredentialFor(hostId)
  /\ UNCHANGED credentials

InitReg ==
  /\ credentials = [id \in DeviceIds |-> Null]
  /\ wakeCredential = NoWakeCredential

NextReg ==
  \/ storageWrite
  \/ getWakeCredential

\* ------------------------------------------------------- extractAccountId

\* A decimal string is the sequence of its digits, a BigInt the sequence of
\* its 16-bit limbs, least significant first, a Buffer the sequence of its
\* bytes, a base64 string the sequence of its characters.

Limb == 65536

\* user_id strings at the ends of the range and around the powers of two.
UserIdAnchors == {
  <<0>>,
  <<1>>,
  <<2, 5, 5>>,
  <<2, 5, 6>>,
  <<6, 5, 5, 3, 5>>,
  <<6, 5, 5, 3, 6>>,
  <<4, 2, 9, 4, 9, 6, 7, 2, 9, 5>>,
  <<4, 2, 9, 4, 9, 6, 7, 2, 9, 6>>,
  <<9, 0, 0, 7, 1, 9, 9, 2, 5, 4, 7, 4, 0, 9, 9, 2>>,
  <<9, 2, 2, 3, 3, 7, 2, 0, 3, 6, 8, 5, 4, 7, 7, 5, 8, 0, 7>>,
  <<9, 2, 2, 3, 3, 7, 2, 0, 3, 6, 8, 5, 4, 7, 7, 5, 8, 0, 8>>,
  <<9, 2, 2, 3, 3, 7, 2, 0, 3, 6, 8, 5, 4, 7, 7, 5, 8, 0, 9>>,
  <<1, 8, 4, 4, 6, 7, 4, 4, 0, 7, 3, 7, 0, 9, 5, 5, 1, 6, 1, 4>>,
  <<1, 8, 4, 4, 6, 7, 4, 4, 0, 7, 3, 7, 0, 9, 5, 5, 1, 6, 1, 5>>}

\* Buffers of 8 bytes: one byte of a uniform buffer set to another value.
BytePatterns ==
  {[k \in 1..8 |-> IF k = p THEN b ELSE c] :
     p \in 1..8, b \in {0, 1, 127, 128, 255}, c \in {0, 90, 255}}

\* digits * m + carry, on decimal digits, least significant first.
RECURSIVE decimalMulAdd(_, _, _)
decimalMulAdd(digits, m, carry) ==
  IF digits = <<>>
  THEN IF carry = 0 THEN <<>>
       ELSE <<carry % 10>> \o decimalMulAdd(<<>>, m, carry \div 10)
  ELSE LET v == Head(digits) * m + carry
       IN <<v % 10>> \o decimalMulAdd(Tail(digits), m, v \div 10)

Reverse(seq) == [k \in 1..Len(seq) |-> seq[Len(seq) + 1 - k]]

\* The decimal string of the unsigned integer whose little-endian bytes are
\* given: the reading of the account id the registration protocol makes.
RECURSIVE littleEndianDigits(_)
littleEndianDigits(bytes) ==
  IF bytes = <<>> THEN <<>>
  ELSE decimalMulAdd(littleEndianDigits(Tail(bytes)), 256, Head(bytes))

readUInt64LE(bytes) ==
  IF littleEndianDigits(bytes) = <<>> THEN <<0>>
  ELSE Reverse(littleEndianDigits(bytes))

\* The user_id strings extractAccountId is called with.
UserIdStrings == UserIdAnchors \cup {readUInt64LE(b) : b \in BytePatterns}

\* limbs * m + carry, on the limbs of a BigInt.
RECURSIVE mulAdd(_, _, _)
mulAdd(limbs, m, carry) ==
  IF limbs = <<>>
  THEN IF carry = 0 THEN <<>> ELSE <<carry>>
  ELSE LET v == Head(limbs) * m + carry
       IN <<v % Limb>> \o mulAdd(Tail(limbs), m, v \div Limb)

\* BigInt(userId): the value of a decimal string.
RECURSIVE parseDecimal(_, _)
parseDecimal(digits, value) ==
  IF digits = <<>> THEN value
  ELSE parseDecimal(Tail(digits), mulAdd(value, 10, Head(digits)))

BigInt(digits) == parseDecimal(digits, <<>>)

\* Buffer.alloc(8, 'binary'): 8 bytes filled with the characters of the fill
\* string 'binary', repeated.
alloc ==
  LET fill == <<98, 105, 110, 97, 114, 121>>
  IN [k \in 1..8 |-> fill[((k - 1) % 6) + 1]]

\* The bytes of a 64-bit value, least significant first.
bytesLE(value) ==
  [k \in 1..8 |->
     LET limb == IF (k + 1) \div 2 <= Len(value) THEN value[(k + 1) \div 2] ELSE 0
     IN IF k % 2 = 1 THEN limb % 256 ELSE limb \div 256]

\* The write with the bytes in big-endian order.
writeBigUInt64BE(buffer, value) ==
  IF Len(value) > 4 THEN Null
  ELSE <<[k \in 1..8 |-> bytesLE(value)[9 - k]]>>

\* buffer.writeBigUInt64LE(value, 0): <<the buffer written>>, or <<>> for the
\* RangeError of a value of more than 64 bits.
writeBigUInt64LE(buffer, value) ==
  IF Len(value) > 4 THEN Null
  ELSE <<[k \in 1..8 |-> bytesLE(value)[k]]>>

Base64Alphabet == <<
  "A", "B", "C", "D", "E", "F", "G", "H", "I", "J", "K", "L", "M", "N", "O", "P",
  "Q", "R", "S", "T", "U", "V", "W", "X", "Y", "Z", "a", "b", "c", "d", "e", "f",
  "g", "h", "i", "j", "k", "l", "m", "n", "o", "p", "q", "r", "s", "t", "u", "v",
  "w", "x", "y", "z", "0", "1", "2", "3", "4", "5", "6", "7", "8", "9", "+", "/">>

\* buffer.toString('base64'): four characters per three bytes, '=' for the
\* bytes missing from the last group.
RECURSIVE toBase64(_)
toBase64(bytes) ==
  LET byte(k) == IF k <= Len(bytes) THEN bytes[k] ELSE 0
      n == byte(1) * 65536 + byte(2) * 256 + byte(3)
      char(sextet) == Base64Alphabet[sextet + 1]
  IN IF bytes = <<>> THEN <<>>
     ELSE IF Len(bytes) = 1
     THEN <<char(n \div 262144), char((n \div 4096) % 64), "=", "=">>
     ELSE IF Len(bytes) = 2
     THEN <<char(n \div 262144), char((n \div 4096) % 64), char((n \div 64) % 64), "=">>
     ELSE <<char(n \div 262144), char((n \div 4096) % 64), char((n \div 64) % 64),
            char(n % 64)>> \o toBase64(SubSeq(bytes, 4, Len(bytes)))

\* Base64 decoding, as the reader of an account id does it.
RECURSIVE fromBase64(_)
fromBase64(chars) ==
  LET sextet(c) == (CHOOSE i \in 1..64 : Base64Alphabet[i] = c) - 1
      value(k) == IF chars[k] = "=" THEN 0 ELSE sextet(chars[k])
      n == value(1) * 262144 + value(2) * 4096 + value(3) * 64 + value(4)
      group == <<n \div 65536, (n \div 256) % 256, n % 256>>
      pads == Cardinality({k \in 1..4 : chars[k] = "="})
  IN IF Len(chars) < 4 THEN <<>>
     ELSE SubSeq(group, 1, 3 - pads) \o fromBase64(SubSeq(chars, 5, Len(chars)))

\* extractAccountId(userId)
extractAccountId ==
  /\ UNCHANGED otherThanAcct
  /\ \E id \in UserIdStrings :
       LET asNumber == BigInt(id)
           buffer == writeBigUInt64LE(alloc, asNumber)
       IN /\ user_id' = id
          /\ accountId' = IF buffer = Null THEN Null ELSE <<toBase64(buffer[1])>>

InitAcct ==
  /\ user_id = <<>>
  /\ accountId = Null

NextAcct == extractAccountId

\* ----------------------------------------- registration.ts: registerDevice

\* The devices playactor's discovery reports: d1 is a PS5 at ip1, d2 a PS4
\* at ip2, each awake or in standby.
Devices ==
  {[id |-> "d1", type |-> "PS5", status |-> s, address |-> "ip1"] :
     s \in {"AWAKE", "STANDBY"}} \cup
  {[id |-> "d2", type |-> "PS4", status |-> s, address |-> "ip2"] :
     s \in {"AWAKE", "STANDBY"}}

\* What the discovery loop leaves in `discovered`: every device reported is
\* pushed, and the loop breaks after the first PS5 (uniqueDevices: no device
\* twice); the list is empty when the 10 s ran out without a device.
DiscoveredLists ==
  {<<>>} \cup {<<d>> : d \in Devices} \cup
  {l \in {<<d, e>> : d \in Devices, e \in Devices} :
     l[1].type # "PS5" /\ l[1].id # l[2].id}

\* How the pairing exchange of RemotePlayRegistration.register ends: it
\* throws, or answers with a regist key ("" when the answer holds none).
RegistKeys == {"", "k1", "k2"}

PairingOutcomes ==
  {[status |-> "throw", registKey |-> ""]} \cup
  {[status |-> "ok", registKey |-> k] : k \in RegistKeys}

\* registKeyToCredential(registKey)
registKeyToCredential(registKey) == IF registKey = "k1" THEN "c1" ELSE "c2"

\* requestForDevice building a credential of another auth-type.
requestForDevice_AuthTypeC(pairing) ==
  IF pairing.status = "throw" \/ pairing.registKey = "" THEN Null
  ELSE <<[authType |-> "C", userCredential |-> registKeyToCredential(pairing.registKey)]>>

\* PinCredentialRequester.requestForDevice(device): <<>> when the exchange
\* threw or gave no regist key (an Error), else <<the ICredentials>>.
requestForDevice(pairing) ==
  IF pairing.status = "throw" \/ pairing.registKey = "" THEN Null
  ELSE <<[authType |-> "R", userCredential |-> registKeyToCredential(pairing.registKey)]>>

\* A write that stores the credential under every device id.
write_EveryId(store, id, creds) == [k \in DOMAIN store |-> <<creds>>]

\* storage.write(id, credentials) on the store given.
write(store, id, creds) == [store EXCEPT ![id] = <<creds>>]

\* const targetDevice = discovered[0]
targetDevice(discovered) == discovered[1]

\* How a registerDevice call ended: the line it returned or threw at, the
\* target device, whether the pairing exchange was attempted and with which
\* account id, what was written, and the store it left.
Registration(status, line, target, paired, account, written, store) ==
  [status |-> status, line |-> line, target |-> target, paired |-> paired,
   accountId |-> account, written |-> written, store |-> store]

\* registerDevice going on to the pairing exchange whatever the status of
\* the target device is.
registerDeviceWith_NoAwakeTest(account, discovered, pairing) ==
  IF Len(discovered) = 0
  THEN Registration("throw", 99, Null, FALSE, 0, Null, credentials)
  ELSE LET target == targetDevice(discovered)
           requested == requestForDevice(pairing)
       IN IF requested = Null
          THEN Registration("throw", 142, <<target>>, TRUE, account, Null, credentials)
          ELSE Registration("return", 160, <<target>>, TRUE, account,
                            <<[id |-> target.id, creds |-> requested[1]]>>,
                            write(credentials, target.id, requested[1]))

\* registerDevice({pin, accountId}) for a discovery and a pairing outcome.
registerDeviceWith(account, discovered, pairing) ==
  IF Len(discovered) = 0
  THEN Registration("throw", 99, Null, FALSE, 0, Null, credentials)
  ELSE LET target == targetDevice(discovered) IN
    IF target.status # "AWAKE"
    THEN Registration("throw", 111, <<target>>, FALSE, 0, Null, credentials)
    ELSE LET requested == requestForDevice(pairing) IN
      IF requested = Null
      THEN Registration("throw", 142, <<target>>, TRUE, account, Null, credentials)
      ELSE LET stored == write(credentials, target.id, requested[1])
               storedCreds == stored[target.id]
               written == <<[id |-> target.id, creds |-> requested[1]]>>
           IN IF storedCreds = Null
              THEN Registration("throw", 152, <<target>>, TRUE, account, written, stored)
              ELSE IF storedCreds[1].authType # "R"
              THEN Registration("throw", 157, <<target>>, TRUE, account, written, stored)
              ELSE Registration("return", 160, <<target>>, TRUE, account, written, stored)

\* registerDevice(options): the ways the call can end.
registerDevice(account) ==
  {registerDeviceWith(account, discovered, pairing) :
     discovered \in DiscoveredLists, pairing \in PairingOutcomes}

\* -------------------------------------------------------------- index.ts

\* The consoles a scan finds: d1 at ip1, and at ip2 a console whose
\* response has no host-id line.
ScanConsoles ==
  {[hostId |-> "d1", ipAddress |-> "ip1"], [hostId |-> "", ipAddress |-> "ip2"]}

\* The lists discoverConsoles resolves with: no two Consoles of one hostId
\* or one address.
ScanLists ==
  {<<>>} \cup {<<c>> : c \in ScanConsoles} \cup
  {l \in {<<c, d>> : c \in ScanConsoles, d \in ScanConsoles} :
     l[1].hostId # l[2].hostId /\ l[1].ipAddress # l[2].ipAddress}

\* The responses whose liveness probe is still running when the scan returns.
LateSets == {{}} \cup {{c} : c \in ScanConsoles}

\* The arguments of the tool calls; "" and 0 stand for an argument left out.
HostArgs == {"ip1", "ip2"}
CredentialArgs == {"", "c1"}
AccountIdArgs == {0, 9}
RegisterHostArgs == {"", "ip2"}

\* How wakeConsole ends: the datagram is sent and the call resolves, or the
\* bind fails and nothing is sent, or the send callback gets an error.
WakeOutcomes == {"sent", "bind error", "send error"}

\* The result of a tool call, with what the call did: the arguments it was
\* given, the failure of the operation underneath ("" when none failed),
\* the datagram handed to the wake socket, and how registerDevice ended.
NoRegistration == Registration("none", 0, Null, FALSE, 0, Null, <<>>)

Result(tool, isError, prefix, failure) ==
  [tool |-> tool, isError |-> isError, text |-> <<prefix, failure>>,
   failure |-> failure, host |-> "", credential |-> "", accountId |-> 0,
   datagram |-> Null, registration |-> NoRegistration]

\* The catch block that returns its text without the isError flag.
errorResult_NotFlagged(tool, prefix, message) == Result(tool, FALSE, prefix, message)

\* { content: [{ type: 'text', text: prefix + errorMessage }], isError: true }
errorResult(tool, prefix, message) == Result(tool, TRUE, prefix, message)

\* A result without isError.
okResult(tool, text) == Result(tool, FALSE, text, "")

\* getCurrentUserInfo reading the stored record whatever its expiry.
currentUserInfo_NoExpiryTest ==
  IF credentialsFile = Null \/ credentialsFile[1].userInfo = 0 THEN Null
  ELSE <<credentialsFile[1].userInfo>>

\* getCurrentUserInfo(): <<>> for its Error, else <<the UserInfo>>.
currentUserInfo ==
  LET tokens == loadTokens IN
    IF tokens = Null \/ tokens[1].userInfo = 0 THEN Null
    ELSE <<tokens[1].userInfo>>

\* Array.prototype.some over the list the late message handler pushes to.
found(list, c) ==
  \E n \in 1..Len(list) : list[n].hostId = c.hostId \/ list[n].ipAddress = c.ipAddress

\* this.discoveredConsoles = await discoverConsoles({ timeout }): a scan
\* that rejects leaves the cache alone; one that resolves hands over its
\* array, which the handlers still waiting for their probe go on pushing to.
scan(tool) ==
  \E resolved \in BOOLEAN :
    IF ~resolved
    THEN /\ toolResult' = errorResult(tool, "Error: ", "Socket error")
         /\ UNCHANGED <<discoveredConsoles, scanResult, latecomers>>
    ELSE \E list \in ScanLists, late \in LateSets :
           /\ discoveredConsoles' = list
           /\ scanResult' = list
           /\ latecomers' = late
           /\ toolResult' = okResult(tool, IF Len(list) = 0 THEN "No consoles found"
                                             ELSE "Found consoles")

\* case 'ps5_discover'
ps5_discover ==
  /\ scan("ps5_discover")
  /\ UNCHANGED <<authVars, discVars, netVars, wakeVars, regVars, acctVars>>

\* case 'ps5_status'
ps5_status ==
  /\ scan("ps5_status")
  /\ UNCHANGED <<authVars, discVars, netVars, wakeVars, regVars, acctVars>>

\* A message handler of the scan that has returned gets the answer of its
\* probe and goes on: the duplicate test and the push, on the array the
\* server holds.
LateProbeDone ==
  /\ \E c \in latecomers :
       /\ latecomers' = latecomers \ {c}
       /\ discoveredConsoles' = IF found(discoveredConsoles, c) THEN discoveredConsoles
                                ELSE Append(discoveredConsoles, c)
  /\ UNCHANGED <<scanResult, toolResult>>
  /\ UNCHANGED <<authVars, discVars, netVars, wakeVars, regVars, acctVars>>

\* this.discoveredConsoles.find((console) => console.ipAddress === host)
find(list, host) ==
  LET matches == {n \in 1..Len(list) : list[n].ipAddress = host}
  IN IF matches = {} THEN Null
     ELSE <<list[CHOOSE n \in matches : \A m \in matches : n <= m]>>

\* await wakeConsole({ host, credential }) and the text after it.
awaitWakeConsole(host, credentialArg, credential, outcome) ==
  IF outcome = "sent"
  THEN [okResult("ps5_wake", "Wake packet sent") EXCEPT
          !.host = host, !.credential = credentialArg,
          !.datagram = <<[host |-> host, credential |-> credential]>>]
  ELSE IF outcome = "send error"
  THEN [errorResult("ps5_wake", "Error: ", "Failed to send wakeup packet") EXCEPT
          !.host = host, !.credential = credentialArg,
          !.datagram = <<[host |-> host, credential |-> credential]>>]
  ELSE [errorResult("ps5_wake", "Error: ", "bind EADDRINUSE") EXCEPT
          !.host = host, !.credential = credentialArg]

\* case 'ps5_wake'
ps5_wake ==
  /\ \E host \in HostArgs, credential \in CredentialArgs, outcome \in WakeOutcomes :
       toolResult' =
         IF credential # "" THEN awaitWakeConsole(host, credential, credential, outcome)
         ELSE LET deviceCredentials == find(discoveredConsoles, host) IN
           IF deviceCredentials = Null \/ deviceCredentials[1].hostId = ""
           THEN [errorResult("ps5_wake", "Error: ", "Could not find console") EXCEPT
                   !.host = host]
           ELSE LET userCredential == wakeCredentialFor(deviceCredentials[1].hostId) IN
             IF userCredential.status = "throw"
             THEN [errorResult("ps5_wake", "Error: ",
                               "Device does not have Remote Play credentials") EXCEPT
                     !.host = host]
             ELSE IF userCredential.value = Null
             THEN [errorResult("ps5_wake", "Error: ", "No credentials found") EXCEPT
                     !.host = host]
             ELSE awaitWakeConsole(host, credential, userCredential.value[1], outcome)
  /\ UNCHANGED <<discoveredConsoles, scanResult, latecomers>>
  /\ UNCHANGED <<authVars, discVars, netVars, wakeVars, regVars, acctVars>>

\* The message of the Error a registerDevice call threw at a line.
registrationError(line) ==
  IF line = 99 THEN "No PlayStation consoles found on the network"
  ELSE IF line = 111 THEN "Device is not AWAKE"
  ELSE IF line = 142 THEN "Registration failed"
  ELSE IF line = 152 THEN "Registration completed but credentials were not stored"
  ELSE "Registration did not produce Remote Play credentials"

\* case 'ps5_register': the host argument of the input schema is not among
\* the parameters the handler reads.
ps5_register ==
  /\ \E host \in RegisterHostArgs, accountIdArg \in AccountIdArgs :
       LET userInfo == IF accountIdArg = 0 THEN currentUserInfo ELSE <<accountIdArg>>
           withArgs(r) == [r EXCEPT !.host = host, !.accountId = accountIdArg]
       IN IF userInfo = Null
          THEN /\ toolResult' = withArgs(errorResult("ps5_register", "Registration failed: ",
                                                   "No user info available"))
               /\ UNCHANGED credentials
          ELSE \E registration \in registerDevice(userInfo[1]) :
                 /\ credentials' = registration.store
                 /\ toolResult' =
                      [withArgs(IF registration.status = "return"
                              THEN okResult("ps5_register", "Successfully registered")
                              ELSE errorResult("ps5_register", "Registration failed: ",
                                               registrationError(registration.line)))
                         EXCEPT !.registration = [registration EXCEPT !.store = <<>>]]
  /\ UNCHANGED <<discoveredConsoles, scanResult, latecomers, wakeCredential>>
  /\ UNCHANGED <<authVars, discVars, netVars, wakeVars, acctVars>>

\* case 'psn_login': with a redirectUrl authenticateWithRedirectUrl, which
\* saves the TokenData once the exchange and the profile lookup succeeded;
\* without one startAuthentication, which answers from the cache, refreshes
\* or opens the browser.
psn_login ==
  /\ \E url \in {Null} \cup {<<u>> : u \in RedirectUrls}, ok \in BOOLEAN, opened \in BOOLEAN :
       IF url # Null
       THEN IF noCode(url[1])
            THEN /\ toolResult' = errorResult("psn_login", "Error: ",
                                              "No authorization code found in redirect URL")
                 /\ UNCHANGED <<credentialsFile, loggedOut>>
            ELSE IF ~ok
            THEN /\ toolResult' = errorResult("psn_login", "Error: ",
                                              "Failed to exchange code for token")
                 /\ UNCHANGED <<credentialsFile, loggedOut>>
            ELSE /\ \E u \in UserIds, e \in ExpiresIn :
                      saveTokens([accessToken |-> 1, refreshToken |-> 1,
                                  expiry |-> now + e * 1000, userInfo |-> u])
                 /\ loggedOut' = FALSE
                 /\ toolResult' = okResult("psn_login", "Successfully authenticated")
       ELSE LET existingTokens == loadTokens IN
            IF isCached(existingTokens)
            THEN /\ toolResult' = okResult("psn_login", "Browser opened")
                 /\ UNCHANGED <<credentialsFile, loggedOut>>
            ELSE IF existingTokens # Null /\ existingTokens[1].refreshToken # 0 /\ ok
            THEN /\ \E u \in UserIds, e \in ExpiresIn :
                      saveTokens([accessToken |-> 1, refreshToken |-> 1,
                                  expiry |-> now + e * 1000, userInfo |-> u])
                 /\ loggedOut' = FALSE
                 /\ toolResult' = okResult("psn_login", "Browser opened")
            ELSE /\ toolResult' = IF opened THEN okResult("psn_login", "Browser opened")
                                  ELSE errorResult("psn_login", "Error: ",
                                                   "Could not open the browser")
                 /\ UNCHANGED <<credentialsFile, loggedOut>>
  /\ UNCHANGED <<now, issued, pc, caller, tokenResponse, ret, call, refreshCalls,
                 codeCalls, profileCalls, browserOpened, redirectUrl>>
  /\ UNCHANGED <<discoveredConsoles, scanResult, latecomers>>
  /\ UNCHANGED <<discVars, netVars, wakeVars, regVars, acctVars>>

\* case 'psn_get_user_info'
psn_get_user_info ==
  /\ toolResult' = IF currentUserInfo = Null
                   THEN errorResult("psn_get_user_info", "Error: ", "No user info available")
                   ELSE okResult("psn_get_user_info", "userInfo")
  /\ UNCHANGED <<discoveredConsoles, scanResult, latecomers>>
  /\ UNCHANGED <<authVars, discVars, netVars, wakeVars, regVars, acctVars>>

\* default: a tool name that is none of the six.
unknownTool ==
  /\ toolResult' = errorResult("other", "Error: ", "Unknown tool")
  /\ UNCHANGED <<discoveredConsoles, scanResult, latecomers>>
  /\ UNCHANGED <<authVars, discVars, netVars, wakeVars, regVars, acctVars>>

\* logout() has run between two tool calls.
SessionLoggedOut ==
  /\ saveTokens([accessToken |-> 0, refreshToken |-> 0, expiry |-> 0, userInfo |-> 0])
  /\ loggedOut' = TRUE
  /\ UNCHANGED <<now, issued, pc, caller, tokenResponse, ret, call, refreshCalls,
                 codeCalls, profileCalls, browserOpened, redirectUrl>>
  /\ UNCHANGED serverVars
  /\ UNCHANGED <<discVars, netVars, wakeVars, regVars, acctVars>>

InitServer ==
  /\ discoveredConsoles = <<>>
  /\ scanResult = <<>>
  /\ latecomers = {}
  /\ toolResult = Result("none", FALSE, "", "")

\* The registration tool and the session it reads.
NextRegister ==
  \/ ps5_register
  \/ psn_login
  \/ psn_get_user_info
  \/ SessionLoggedOut
  \/ Tick
  \/ storageWrite

\* The wake tool, the cache it reads and the store it reads.
NextWakeTool ==
  \/ ps5_discover
  \/ ps5_status
  \/ LateProbeDone
  \/ ps5_wake
  \/ storageWrite

\* Every tool of the call-tool handler.
NextTools ==
  \/ psn_login
  \/ psn_get_user_info
  \/ ps5_discover
  \/ ps5_register
  \/ ps5_wake
  \/ ps5_status
  \/ unknownTool

Init ==
  InitAuth /\ InitDisc /\ InitNet /\ InitWake /\ InitReg /\ InitAcct /\ InitServer

SpecAuth == Init /\ [][NextAuth]_vars

SpecDisc == Init /\ [][NextDisc]_vars

SpecNet == Init /\ [][NextNet]_vars

SpecWake == Init /\ [][NextWake]_vars

SpecReg == Init /\ [][NextReg]_vars

SpecAcct == Init /\ [][NextAcct]_vars

SpecRegister == Init /\ [][NextRegister]_vars

SpecWakeTool == Init /\ [][NextWakeTool]_vars

SpecTools == Init /\ [][NextTools]_vars

\* ------------------------------------------------- token lifecycle claims

\* The last call was op and has ended.
Ended(op) == pc = "idle" /\ ret.op = op

\* The record stored when the call began was absent or had its expiry in the past.
CalledExpired == call.file # Null /\ call.file[1].expiry < call.now

\* C1 (as claimed): getAccessToken called with a stored TokenData whose expiry
\* is in the past and whose refreshToken is non-empty performs exactly one
\* refresh exchange and, when the provider accepts it, stores the refreshed
\* TokenData and returns its access token.
C1_ExpiredIsRefreshed ==
  (Ended("getAccessToken") /\ CalledExpired /\ call.file[1].refreshToken # 0)
    => /\ refreshCalls = 1
       /\ ret.status = "ok" =>
            /\ credentialsFile # call.file
            /\ ret.value = credentialsFile[1].accessToken

\* C2: getAccessToken called with a stored TokenData whose expiry is in the
\* future returns the stored accessToken, makes no refresh, code or profile
\* request, and leaves the stored TokenData as it was.
C2_FutureExpiryReturnsCached ==
  (Ended("getAccessToken") /\ call.file # Null /\ call.file[1].expiry > call.now)
    => /\ ret.status = "ok"
       /\ ret.value = call.file[1].accessToken
       /\ refreshCalls = 0
       /\ codeCalls = 0
       /\ profileCalls = 0
       /\ credentialsFile = call.file

\* C2 witness: a call with an unexpired stored token has returned that token.
C2_Witness ==
  /\ Ended("getAccessToken")
  /\ call.file # Null
  /\ call.file[1].expiry > call.now
  /\ ret.status = "ok"
  /\ ret.value > 0

\* C3: getAccessToken never hands out the access token of a stored record
\* whose expiry is earlier than the time of the call: with an expired or
\* absent record the call fails or returns the token of a refresh it made,
\* and a token returned from the store had an expiry not before the call.
C3_NeverStaleToken ==
  Ended("getAccessToken") =>
    /\ (call.file = Null \/ CalledExpired) =>
         \/ ret.status = "throw"
         \/ /\ refreshCalls = 1
            /\ credentialsFile # call.file
            /\ ret.value = credentialsFile[1].accessToken
            /\ credentialsFile[1].expiry >= call.now
    /\ (ret.status = "ok" /\ refreshCalls = 0) =>
         /\ call.file # Null
         /\ call.file[1].expiry >= call.now
         /\ ret.value = call.file[1].accessToken

\* C3 witness: a call made with an expired record that holds a real access
\* token has ended.
C3_Witness ==
  /\ Ended("getAccessToken")
  /\ CalledExpired
  /\ call.file[1].accessToken > 0

\* C4 (as claimed): startAuthentication called with an expired stored
\* TokenData that holds a non-empty refreshToken attempts a refresh exchange,
\* and reports the refresh without opening the browser when it succeeds.
C4_ExpiredRefreshesOnStart ==
  (Ended("startAuthentication") /\ CalledExpired /\ call.file[1].refreshToken # 0)
    => /\ refreshCalls = 1
       /\ ret.line = 451 => ~browserOpened

\* C5: from logout until the next successful authenticateWithRedirectUrl no
\* session is loaded, getAccessToken and getCurrentUserInfo fail, and
\* startAuthentication does not answer 'Already authenticated'.
C5_LoggedOutIsInvalid ==
  loggedOut =>
    /\ loadTokens = Null
    /\ Ended("getAccessToken") => ret.status = "throw"
    /\ Ended("getCurrentUserInfo") => ret.status = "throw"
    /\ Ended("startAuthentication") => ret.line # 443 /\ refreshCalls = 0

\* C5 witness: after a session was established and logged out, getAccessToken
\* has been called and has failed.
C5_Witness ==
  /\ loggedOut
  /\ issued > 0
  /\ Ended("getAccessToken")
  /\ ret.status = "throw"

\* ------------------------------------------------------- discovery claims

\* Two responses are of the same console: they share a non-empty hostId or
\* their source address.
SameConsole(a, b) ==
  \/ a.hostId # "" /\ a.hostId = b.hostId
  \/ a.ipAddress = b.ipAddress

\* The handler of the k-th response has run to its end.
Handled(k) == \A p \in probes : p.rcv # k

\* The k-th response produced a Console of the list.
Kept(k) == \E n \in 1..Len(consoles) : consoles[n].rcv = k

\* C6: at every moment of a scan no two Consoles of the list have the same
\* ipAddress and no two have the same non-empty hostId.
C6_NoDuplicateConsoles ==
  \A m, n \in 1..Len(consoles) :
    m < n =>
      /\ consoles[m].ipAddress # consoles[n].ipAddress
      /\ consoles[m].hostId # "" => consoles[m].hostId # consoles[n].hostId

\* C6 witness: two responses of the same console, with different addresses,
\* were received and handled, and one Console is in the list.
C6_Witness ==
  /\ Len(log) = 2
  /\ Handled(1) /\ Handled(2)
  /\ log[1].hostId = "h1" /\ log[2].hostId = "h1"
  /\ log[1].ipAddress # log[2].ipAddress
  /\ Len(consoles) = 1

\* C7 (as claimed): first-seen wins.  A Console of the list is never built
\* from a response when an earlier response, itself the first of its
\* console, shares a non-empty hostId or the source address with it.
C7_FirstSeenWins ==
  \A n \in 1..Len(consoles) :
    \A k \in 1..(consoles[n].rcv - 1) :
      (\A i \in 1..(k - 1) : ~SameConsole(log[i], log[k]))
        => ~SameConsole(log[k], log[consoles[n].rcv])

\* C8 (as claimed): the list that discoverConsoles returns is in receipt
\* order.
C8_ReceiptOrder ==
  settled = "resolved" =>
    \A m, n \in 1..Len(returned) :
      m < n => returned[m].rcv < returned[n].rcv

\* C9 (as claimed): a handled response without host-id whose source address
\* no other response came from has produced a Console, also when a Console
\* without hostId is in the list already.
C9_EmptyHostIdNotCompared ==
  \A k \in 1..Len(log) :
    ( /\ log[k].hostId = ""
      /\ Handled(k)
      /\ \A i \in 1..Len(log) : i # k => log[i].ipAddress # log[k].ipAddress )
      => Kept(k)

\* C10: a scan is pending no longer than its timeout; once the timeout
\* timer has run the scan is settled and the socket closed; a scan that
\* resolved did so when the timer ran, at the timeout, with the list
\* accumulated until then (empty if no response had arrived), whatever
\* sends and probes were outstanding.
C10_SettlesAtTimeout ==
  /\ settled = "pending" => elapsed <= timeout
  /\ timeoutHandle = "fired" => settled = "resolved"
  /\ settled = "resolved" =>
       /\ timeoutHandle = "fired"
       /\ settledAt = timeout
       /\ closeCalls = 1
       /\ Len(returned) <= Len(consoles)
       /\ returned = SubSeq(consoles, 1, Len(returned))
       /\ \A n \in 1..Len(returned) : returned[n].rcv <= Len(log)
       /\ Len(log) = 0 => returned = <<>>

\* C10 witness: the scan has resolved while a send timer and a liveness
\* probe were still outstanding.
C10_Witness ==
  /\ settled = "resolved"
  /\ sendTimers # {}
  /\ probes # {}

\* C11: the status of a Console built from a response without a status line
\* is AWAKE when the ping of its source address answered and STANDBY when
\* exec rejected; a response with a status line is never probed, and the
\* Console built from it has not been.
C11_ProbeDecidesStatus ==
  /\ \A p \in probes : ~log[p.rcv].hasStatus
  /\ \A n \in 1..Len(consoles) :
       /\ log[consoles[n].rcv].hasStatus <=> consoles[n].probe = "none"
       /\ consoles[n].probe = "reply" => consoles[n].status = "AWAKE"
       /\ consoles[n].probe = "error" => consoles[n].status = "STANDBY"

\* C11 witness: the list holds a Console whose ping failed and a Console
\* built from a response that carried its status.
C11_Witness ==
  \E m, n \in 1..Len(consoles) :
    /\ consoles[m].probe = "error"
    /\ consoles[m].status = "STANDBY"
    /\ consoles[n].probe = "none"

\* C12 (as claimed): every Console of the list that discoverConsoles returns
\* has the status AWAKE or STANDBY.
C12_StatusIsAwakeOrStandby ==
  settled = "resolved" =>
    \A n \in 1..Len(returned) : returned[n].status \in {"AWAKE", "STANDBY"}

\* C13 (as claimed): no Console of the returned list was built from a
\* malformed datagram.
C13_MalformedSkipped ==
  settled = "resolved" =>
    \A n \in 1..Len(returned) : ~log[returned[n].rcv].malformed

\* C14 (as claimed): a scan whose socket reported an error or whose bind
\* callback threw is rejected, and a scan whose first send failed does not
\* resolve with a list.
C14_TransportErrorAborts ==
  /\ timeoutHandle = "cleared" => settled = "rejected"
  /\ firstSend = "error" => settled # "resolved"

\* ------------------------------------------- getBroadcastAddresses claims

\* Bit k of the octet x.
Bit(x, k) == (x \div (2 ^ k)) % 2

\* b is ip OR (NOT netmask), octet by octet and bit by bit.
IsOrNotMask(b, iface) ==
  /\ Len(b) = 4
  /\ \A i \in 1..4 : \A k \in 0..7 :
       Bit(b[i], k) = 1 <=> (Bit(iface.address[i], k) = 1 \/ Bit(iface.netmask[i], k) = 0)

\* The interface is one getBroadcastAddresses derives an address from.
NonLoopbackIPv4(iface) == ~iface.internal /\ iface.family = "IPv4"

\* C15: the list getBroadcastAddresses returns holds, for every non-loopback
\* IPv4 interface, the address ip OR (NOT netmask); it holds no address
\* twice; it holds 255.255.255.255 exactly once; and it holds nothing else.
C15_BroadcastAddresses ==
  addresses # <<>> =>
    /\ \A m \in 1..Len(interfaces) :
         NonLoopbackIPv4(interfaces[m]) =>
           \E n \in 1..Len(addresses) : IsOrNotMask(addresses[n], interfaces[m])
    /\ \A m, n \in 1..Len(addresses) : m # n => addresses[m] # addresses[n]
    /\ Cardinality({n \in 1..Len(addresses) : addresses[n] = GlobalBroadcast}) = 1
    /\ \A n \in 1..Len(addresses) :
         \/ addresses[n] = GlobalBroadcast
         \/ \E m \in 1..Len(interfaces) :
              NonLoopbackIPv4(interfaces[m]) /\ IsOrNotMask(addresses[n], interfaces[m])

\* C15 witness: the call was made with an interface that derives
\* 255.255.255.255 itself, two interfaces of one network, and returned two
\* addresses.
C15_Witness ==
  /\ Len(addresses) = 2
  /\ \E m \in 1..Len(interfaces) :
       NonLoopbackIPv4(interfaces[m]) /\ IsOrNotMask(GlobalBroadcast, interfaces[m])
  /\ \E l, m \in 1..Len(interfaces) :
       /\ l # m
       /\ NonLoopbackIPv4(interfaces[l])
       /\ interfaces[l].address # interfaces[m].address
       /\ interfaces[l].netmask = interfaces[m].netmask

\* ------------------------------------------------------ wakeConsole claims

\* The datagrams the call i handed to its socket.
DatagramsOf(i) == {d \in datagrams : d.call = i}

\* C16: a wakeConsole call that resolved has sent exactly one datagram, from
\* local port 16690 to its host at its port (9302 when the caller gave
\* none), whose first line is 'WAKEUP * HTTP/1.1' and which has the line
\* 'user-credential:<credential>' with the credential of the call.
C16_OneWakeDatagram ==
  \A i \in 1..MaxWakes :
    wake[i].settled = "resolved" =>
      /\ Cardinality(DatagramsOf(i)) = 1
      /\ \A d \in DatagramsOf(i) :
           /\ d.from = 16690
           /\ d.host = wake[i].host
           /\ d.port = IF wake[i].port = <<>> THEN 9302 ELSE wake[i].port[1]
           /\ d.message[1] = <<"WAKEUP * HTTP/1.1">>
           /\ \E n \in 2..Len(d.message) :
                d.message[n] = <<"user-credential", wake[i].credential>>

\* C16 witness: two calls with different credentials have resolved, one
\* made without a port and one with.
C16_Witness ==
  \E i, j \in 1..MaxWakes :
    /\ wake[i].settled = "resolved" /\ wake[j].settled = "resolved"
    /\ wake[i].credential # wake[j].credential
    /\ wake[i].port = <<>>
    /\ wake[j].port # <<>>

\* C17: a call resolves only after its one send was called back without an
\* error and 2000 ms have passed since; its socket is closed (once) when it
\* has resolved; a call that has not got that far has not resolved.
C17_ResolvesAfterGrace ==
  \A i \in 1..MaxWakes :
    /\ wake[i].settled = "resolved" =>
         /\ wake[i].sends = 1
         /\ wake[i].failure = "none"
         /\ wake[i].waited >= 2000
         /\ wake[i].isSocketClosed
         /\ wake[i].closeCalls = 1
         /\ boundSocket # i
    /\ wake[i].pc \in {"idle", "binding", "sending"} => wake[i].settled # "resolved"

\* C17 witness: a call has resolved while another call was waiting for its
\* send callback.
C17_Witness ==
  \E i, j \in 1..MaxWakes :
    /\ wake[i].settled = "resolved"
    /\ wake[i].waited >= 2000
    /\ wake[j].pc = "sending"

\* C18: a call whose bind or send failed is rejected, has made at most one
\* send, and has closed its socket exactly once; no call closes its socket
\* twice or sends twice.
C18_FailureRejectsAndClosesOnce ==
  \A i \in 1..MaxWakes :
    /\ wake[i].closeCalls <= 1
    /\ wake[i].sends <= 1
    /\ Cardinality(DatagramsOf(i)) <= 1
    /\ wake[i].failure # "none" =>
         /\ wake[i].settled = "rejected"
         /\ wake[i].isSocketClosed
         /\ wake[i].closeCalls = 1
         /\ wake[i].pc = "end"

\* C18 witness: one call failed in its bind and one in its send callback.
C18_Witness ==
  \E i, j \in 1..MaxWakes :
    /\ wake[i].failure \in {"bind", "EADDRINUSE"}
    /\ wake[j].failure = "send"
    /\ wake[j].sends = 1

\* C19 (as claimed): a call that started while another call was waiting for
\* its timer does not fail because of that call: its bind does not end with
\* EADDRINUSE.
C19_OverlappingWakesSucceed ==
  \A i \in 1..MaxWakes :
    wake[i].overlapped => wake[i].failure # "EADDRINUSE"

\* ------------------------------------------------ getWakeCredential claims

\* C20: getWakeCredential throws, and returns no secret, whenever the
\* credential it read has an auth-type other than 'R'; what it returns
\* besides null is the user-credential of a stored credential of auth-type
\* 'R', and it returns that for every such credential.
C20_OnlyRemotePlayCredential ==
  wakeCredential.status # "none" =>
    /\ (wakeCredential.creds # Null /\ wakeCredential.creds[1].authType # "R") =>
         /\ wakeCredential.status = "throw"
         /\ wakeCredential.value = Null
    /\ (wakeCredential.status = "return" /\ wakeCredential.value # Null) =>
         /\ wakeCredential.creds # Null
         /\ wakeCredential.creds[1].authType = "R"
         /\ wakeCredential.value = <<wakeCredential.creds[1].userCredential>>
    /\ (wakeCredential.creds # Null /\ wakeCredential.creds[1].authType = "R") =>
         /\ wakeCredential.status = "return"
         /\ wakeCredential.value = <<wakeCredential.creds[1].userCredential>>

\* C20 witness: getWakeCredential has thrown for a device with a stored
\* credential of auth-type 'C' while the other device holds one of type 'R'.
C20_Witness ==
  /\ wakeCredential.status = "throw"
  /\ wakeCredential.creds # Null
  /\ wakeCredential.creds[1].authType = "C"
  /\ \E id \in DeviceIds :
       /\ id # wakeCredential.hostId
       /\ credentials[id] # Null
       /\ credentials[id][1].authType = "R"

\* ---------------------------------------- authenticateWithRedirectUrl claims

\* C26: an authenticateWithRedirectUrl call whose URL has no code parameter
\* throws, and has made no token exchange and no profile lookup (nor a
\* refresh), and has left the stored TokenData as it was.
C26_NoCodeNoExchange ==
  (ret.op = "authenticateWithRedirectUrl" /\ redirectUrl.code = Null) =>
    /\ pc = "idle"
    /\ ret.status = "throw"
    /\ codeCalls = 0
    /\ profileCalls = 0
    /\ refreshCalls = 0
    /\ credentialsFile = call.file

\* C26 witness: with a session stored, authenticateWithRedirectUrl was
\* called with a URL without code and has thrown.
C26_Witness ==
  /\ Ended("authenticateWithRedirectUrl")
  /\ redirectUrl.code = Null
  /\ ret.status = "throw"
  /\ call.file # Null
  /\ call.file[1].accessToken > 0

\* ------------------------------------------- returned list and staggered sends

\* C29: once discoverConsoles has returned its list the list is not modified
\* again: the array the resolve call handed out (the one the server keeps
\* as its cache of discovered consoles) still holds what it held then.
C29_ReturnedListFrozen ==
  settled = "resolved" => consoles = returned

\* C30: the search datagram for the broadcast address at index i goes out
\* when its timer, armed by the bind callback for i * 100 ms later, is due,
\* and only while the scan is pending: no datagram is sent once the scan has
\* settled, and an address whose index i has timeout <= i * 100 is never
\* sent to.
C30_StaggeredSends ==
  /\ [](\A i \in sent : timeout > i * 100)
  /\ [][/\ (~bound /\ bound') =>
             \A t \in sendTimers' : t.due = elapsed + t.index * 100
        /\ sent' # sent =>
             /\ settled = "pending"
             /\ settled' = "pending"
             /\ \E t \in sendTimers :
                  /\ sent' = sent \cup {t.index}
                  /\ sendTimers' = sendTimers \ {t}
                  /\ elapsed = t.due
                  /\ elapsed' = elapsed]_vars

\* C30 witness: a scan with a timeout of 100 ms has resolved: the address at
\* index 0 was sent to, and the timer of the address at index 1, due at the
\* timeout, is still to run.
C30_Witness ==
  /\ settled = "resolved"
  /\ timeout = 100
  /\ sent = {0}
  /\ \E t \in sendTimers : t.index = 1 /\ t.due = timeout

\* ------------------------------------------------------- account id claims

\* C28: the account id extractAccountId derives from a decimal user id in
\* 0 .. 2^64 - 1 round-trips: base64-decoding it gives exactly 8 bytes, and
\* the little-endian unsigned 64-bit integer they hold is the user id.
C28_AccountIdRoundTrip ==
  user_id # <<>> =>
    /\ accountId # Null
    /\ Len(fromBase64(accountId[1])) = 8
    /\ readUInt64LE(fromBase64(accountId[1])) = user_id

\* C28 witness: the account id of the user id 2^63 = 9223372036854775808
\* has been derived: it is AAAAAAAAAIA=.
C28_Witness ==
  /\ user_id = <<9, 2, 2, 3, 3, 7, 2, 0, 3, 6, 8, 5, 4, 7, 7, 5, 8, 0, 8>>
  /\ accountId = <<<<"A", "A", "A", "A", "A", "A", "A", "A", "A", "I", "A", "=">>>>

\* ------------------------------------------------------------ tool claims

\* A tool call of the name given has just been made.
called(tool) == toolResult' # toolResult /\ toolResult'.tool = tool

\* The stored session is valid: a TokenData with user info whose expiry has
\* not passed.
validSession ==
  /\ credentialsFile # Null
  /\ credentialsFile[1].expiry >= now
  /\ credentialsFile[1].userInfo # 0

\* C21: a ps5_wake call without a credential argument sends a wake datagram
\* only if its host is the ipAddress of a Console in the result of the most
\* recent scan, that Console has a non-empty hostId and the store holds for
\* this hostId a credential of auth-type 'R', whose user-credential is the
\* one sent; in every other case the result is an error and no datagram is
\* sent.
C21_WakeOnlyScannedAndRegistered ==
  [][(called("ps5_wake") /\ toolResult'.credential = "") =>
       LET r == toolResult'
           entitled(c) ==
             \E n \in 1..Len(scanResult) :
               /\ scanResult[n].ipAddress = r.host
               /\ scanResult[n].hostId # ""
               /\ credentials[scanResult[n].hostId] # Null
               /\ credentials[scanResult[n].hostId][1].authType = "R"
               /\ credentials[scanResult[n].hostId][1].userCredential = c
       IN /\ r.datagram # Null =>
               /\ r.datagram[1].host = r.host
               /\ entitled(r.datagram[1].credential)
          /\ (~\E c \in UserCredentials : entitled(c)) =>
               r.isError /\ r.datagram = Null]_vars

\* C22: whatever a registerDevice call leaves in the store that was not
\* there before, after a return as after an Error, is a credential of
\* auth-type 'R'.
C22_RegisterStoresOnlyRemotePlay ==
  [][called("ps5_register") =>
       \A id \in DeviceIds :
         credentials'[id] # credentials[id] =>
           credentials'[id] # Null /\ credentials'[id][1].authType = "R"]_vars

\* C22 witness: a registerDevice call has returned and its credential is in
\* the store.
C22_Witness ==
  /\ toolResult.tool = "ps5_register"
  /\ toolResult.registration.status = "return"
  /\ credentials[toolResult.registration.target[1].id]
       = <<toolResult.registration.written[1].creds>>

\* C23: when registerDevice has returned for the target device d, the store
\* holds under d.id the credential the pairing produced, which passes the
\* test of getWakeCredential, so that getWakeCredential(d.id) returns its
\* user-credential, and what is stored for the other ids is what was
\* stored before.
C23_StoredUnderTargetId ==
  [][(called("ps5_register") /\ toolResult'.registration.status = "return") =>
       LET d == toolResult'.registration.target[1].id
           produced == toolResult'.registration.written[1].creds
       IN /\ credentials'[d] = <<produced>>
          /\ isRemotePlay(credentials'[d][1])
          /\ credentials'[d][1].userCredential = produced.userCredential
          /\ \A other \in DeviceIds \ {d} : credentials'[other] = credentials[other]]_vars

\* C23 witness: registerDevice has returned for d2 while a credential of
\* another kind is stored for d1.
C23_Witness ==
  /\ toolResult.tool = "ps5_register"
  /\ toolResult.registration.status = "return"
  /\ toolResult.registration.target[1].id = "d2"
  /\ credentials["d2"] # Null
  /\ credentials["d1"] # Null
  /\ credentials["d1"][1].authType = "C"

\* C24: a ps5_register call without an accountId that pairs does so with the
\* account id of the valid session; without a valid session (none stored,
\* expired, logged out) the result is an error, no pairing is attempted and
\* the store is what it was.
C24_AccountIdFromSession ==
  [][(called("ps5_register") /\ toolResult'.accountId = 0) =>
       LET r == toolResult'
       IN IF validSession
          THEN r.registration.paired =>
                 r.registration.accountId = credentialsFile[1].userInfo
          ELSE /\ r.isError
               /\ ~r.registration.paired
               /\ credentials' = credentials]_vars

\* C24 witness: ps5_register was called without an accountId while the
\* stored session had expired, and has answered with an error.
C24_Witness ==
  /\ toolResult.tool = "ps5_register"
  /\ toolResult.accountId = 0
  /\ toolResult.isError
  /\ toolResult.failure = "No user info available"
  /\ credentialsFile # Null
  /\ credentialsFile[1].userInfo # 0
  /\ credentialsFile[1].expiry < now

\* C25: a ps5_register call with a host argument pairs with the console at
\* that address.
C25_RegisterUsesHost ==
  (/\ toolResult.tool = "ps5_register"
   /\ toolResult.host # ""
   /\ toolResult.registration.paired) =>
    toolResult.registration.target[1].address = toolResult.host

C31_SettledOnceClosedOnce ==
  /\ settleCalls <= 1
  /\ closeCalls <= 1
  /\ settleCalls = closeCalls
  /\ isResolved <=> settleCalls = 1
  /\ settled \in {"resolved", "rejected"} <=> settleCalls = 1
  /\ timeoutHandle \in {"fired", "cleared"} => settleCalls = 1 /\ closeCalls = 1
  /\ settled = "pending" => timeoutHandle = "armed"

\* C31 witness: the error event rejected the scan while a send timer and a
\* message handler's probe were outstanding; the socket was closed once and
\* the timeout timer cleared.
C31_Witness ==
  /\ settled = "rejected"
  /\ timeoutHandle = "cleared"
  /\ sendTimers # {}
  /\ probes # {}
  /\ closeCalls = 1
  /\ settleCalls = 1

\* C32: a call of authenticateWithRedirectUrl, or a refresh exchange made by
\* getAccessToken or startAuthentication, that fails (no code, token
\* exchange rejected, profile lookup failed) leaves the credentials file as
\* it was when the call began; the file is not written while an exchange or
\* a profile lookup is in flight, and a call of these functions that changed
\* it made one token exchange and one profile lookup and returned normally.
C32_FailureKeepsSession ==
  /\ pc # "idle" => credentialsFile = call.file
  /\ ret.status = "throw" => credentialsFile = call.file
  /\ (ret.op = "startAuthentication" /\ ret.line = 470) => credentialsFile = call.file
  /\ (credentialsFile # call.file /\ ret.op # "logout") =>
       /\ ret.status = "ok"
       /\ ret.line \in {431, 451, 497}
       /\ codeCalls + refreshCalls = 1
       /\ profileCalls = 1
       /\ credentialsFile[1].accessToken = issued
       /\ credentialsFile[1].userInfo # 0

\* C32 witness: with a session stored, authenticateWithRedirectUrl exchanged
\* its code and then failed at the profile lookup; the stored session is the
\* one from before the call.
C32_Witness ==
  /\ ret.op = "authenticateWithRedirectUrl"
  /\ ret.status = "throw"
  /\ ret.line = 351
  /\ codeCalls = 1
  /\ profileCalls = 1
  /\ call.file # Null
  /\ call.file[1].accessToken # 0
  /\ credentialsFile = call.file

\* C33: when a PS5 is among the devices registerDevice discovered and the
\* call went on to the pairing exchange, the target device it paired with
\* (and stored the credential for) is a PS5, also when a device of another
\* type was discovered before the PS5.
C33_TargetIsFirstPS5 ==
  [][called("ps5_register") =>
       \A discovered \in DiscoveredLists, pairing \in PairingOutcomes :
         LET r == registerDeviceWith(toolResult'.registration.accountId,
                                     discovered, pairing)
         IN (/\ \E n \in 1..Len(discovered) : discovered[n].type = "PS5"
             /\ r.paired
             /\ toolResult'.registration = [r EXCEPT !.store = <<>>]
             /\ credentials' = r.store)
            => toolResult'.registration.target[1].type = "PS5"]_vars

\* C34: a registerDevice call that discovered no device (it has no target),
\* or whose target device (discovered[0]) is not AWAKE, throws (at line 99,
\* at line 111): the tool answers with an error, no pairing exchange was
\* attempted, nothing was written and the credential store is what it was.
C34_NoDeviceOrAsleepFails ==
  [][(called("ps5_register") /\ toolResult'.registration.status # "none") =>
       LET r == toolResult'.registration
           noDevice == r.target = Null
           asleep == r.target # Null /\ r.target[1].status # "AWAKE"
       IN (noDevice \/ asleep) =>
            /\ r.status = "throw"
            /\ r.line = (IF noDevice THEN 99 ELSE 111)
            /\ toolResult'.isError
            /\ ~r.paired
            /\ r.written = Null
            /\ credentials' = credentials]_vars

\* C34 witness: while a credential is stored for d1, registerDevice found d1
\* in standby and threw; nothing was paired or written.
C34_Witness ==
  /\ toolResult.tool = "ps5_register"
  /\ toolResult.isError
  /\ toolResult.registration.line = 111
  /\ toolResult.registration.target # Null
  /\ toolResult.registration.target[1].id = "d1"
  /\ toolResult.registration.target[1].status = "STANDBY"
  /\ ~toolResult.registration.paired
  /\ credentials["d1"] # Null

\* C35: the cache holds what the most recent successful scan returned:
\* it changes only in a ps5_discover or ps5_status call whose scan
\* succeeded, which replaces it by the result of that scan (a failed scan,
\* ps5_wake, ps5_register and the PSN tools leave it alone), and a ps5_wake
\* call without a credential that sends does so for a host of that result.
C35_CacheIsLastSuccessfulScan ==
  /\ [](discoveredConsoles = scanResult)
  /\ [][discoveredConsoles' # discoveredConsoles =>
          /\ toolResult'.tool \in {"ps5_discover", "ps5_status"}
          /\ ~toolResult'.isError
          /\ discoveredConsoles' = scanResult']_vars
  /\ [][(/\ called("ps5_wake")
          /\ toolResult'.credential = ""
          /\ toolResult'.datagram # Null) =>
          \E n \in 1..Len(scanResult) :
            scanResult[n].ipAddress = toolResult'.host]_vars

====
